---------------------------- MODULE Spec2Model ----------------------------
(***************************************************************************)
(* The risk-managed paper-trading engine of the strategy engine:           *)
(* PaperExchange (paper_exchange.py), RiskManager (risk_manager.py) and    *)
(* the endpoints of engine.py that drive them.                             *)
(*                                                                         *)
(* Numbers.  The program computes in binary floating point.  The model     *)
(* computes in exact fixed point: money in thousandths of a dollar, prices *)
(* in thousandths of a point, reward multiples in ten-thousandths.  The    *)
(* inputs drawn below keep every product exact in these units, so the only *)
(* roundings are the ones the code asks for: round(x, 2), round(x, 1) and  *)
(* int(x).  The wall-clock "time" field of a trade record is left out.     *)
(***************************************************************************)
EXTENDS Integers, Sequences, FiniteSets, TLC

VARIABLES
    balance,        \* PaperExchange.balance, thousandths of a dollar
    pnl,            \* PaperExchange.pnl, thousandths of a dollar
    history,        \* PaperExchange.history, sequence of trade records
    trades_today,   \* RiskManager.trades_today
    resp,           \* what the last operation returned to its caller
    loop            \* the server's event loop: requests received and not yet
                    \* started, and handlers that have started and not returned

vars == <<balance, pnl, history, trades_today, resp, loop>>

ledger == <<balance, pnl, history, trades_today>>

----------------------------------------------------------------------------
(* Units and the code's numeric conversions *)

Dollars(n) == n * 1000

Points(n) == n * 1000

Abs(x) == IF x < 0 THEN -x ELSE x

Max(a, b) == IF a >= b THEN a ELSE b

\* int(a / b) for b > 0: Python's int() truncates toward zero.
TruncDiv(a, b) == IF a >= 0 THEN a \div b ELSE -((-a) \div b)

\* round(x, 2) on a value in thousandths: the nearest hundredth, ties to even,
\* still expressed in thousandths.
Round2(x) ==
    LET q == x \div 10
        r == x % 10
    IN  IF r < 5 THEN 10 * q
        ELSE IF r > 5 THEN 10 * (q + 1)
        ELSE IF q % 2 = 0 THEN 10 * q ELSE 10 * (q + 1)

\* round(wins / total * 100, 1) in tenths of a percent, ties to even.
RoundPct1(wins, total) ==
    LET n == 1000 * wins
        q == n \div total
        r2 == 2 * (n % total)
    IN  IF r2 < total THEN q
        ELSE IF r2 > total THEN q + 1
        ELSE IF q % 2 = 0 THEN q ELSE q + 1

----------------------------------------------------------------------------
(* Program constants *)

initial_balance == 100000

max_daily_loss == 1000

max_trades_daily == 5

\* risk_per_trade_pct = 0.005, as thousandths
risk_per_trade_pct == 5

\* random.choice([0, 0.25, 0.5]), thousandths of a point
Slippages == {0, 250, 500}

\* random.choice(["WIN", "LOSS", "WIN"])
Outcomes == {"WIN", "LOSS"}

\* execute_order's per-point multiplier and per-contract commission
point_multiplier == 20

commission_rate == 2

\* engine.py: stop = price -/+ 20
stop_offset == 20

SYMBOL == "NQ=F"

----------------------------------------------------------------------------
(* Inputs the environment draws *)

\* random.uniform(1.5, 3.0) in ten-thousandths: values of the interval, even so
\* that profit is exact in thousandths of a dollar.  1.5926 is a value for which
\* a win and four losses leave pnl at -999.997.
RewardMultiples == {15926, 30000}

\* req.action of the requests sent to POST /execute
Actions == {"BUY"}

\* What get_candles returns: the Close column, empty when data is offline.
Feeds == {<<>>, <<Points(20000)>>}

----------------------------------------------------------------------------
(* PaperExchange *)

Last(s, n) == IF Len(s) <= n THEN s ELSE SubSeq(s, Len(s) - n + 1, Len(s))

Wins(h) == Cardinality({i \in 1..Len(h) : h[i].result = "WIN"})
\* win_rate cut to 1 decimal instead of rounded
win_rate_truncated(h) == IF Len(h) > 0 THEN (1000 * Wins(h)) \div Len(h) ELSE 0


win_rate(h) == IF Len(h) > 0 THEN RoundPct1(Wins(h), Len(h)) ELSE 0

\* get_stats()['balance'] and get_stats()['pnl']: the two fields RiskManager reads.
stats_balance == Round2(balance)

stats_pnl == Round2(pnl)

get_stats ==
    [balance      |-> stats_balance,
     pnl          |-> stats_pnl,
     trades_count |-> Len(history),
     win_rate     |-> win_rate(history),
     history      |-> Last(history, 10)]

fill_price(action, price, slippage) ==
    IF action = "BUY" THEN price + slippage ELSE price - slippage

commission(quantity) == Dollars(commission_rate) * quantity

\* risk_amt / loss: abs(fill_price - stop) * quantity * 20, thousandths of a dollar
risk_amt(fill, stop, quantity) == Abs(fill - stop) * quantity * point_multiplier

\* risk_amt * rr with rr in ten-thousandths: x * 20 * rr / 10000 = x * rr / 500,
\* split so that no intermediate product leaves 32 bits.
win_profit(fill, stop, quantity, rr) ==
    LET x == Abs(fill - stop) * quantity
    IN  (x \div 500) * rr + ((x % 500) * rr) \div 500
\* profit whose LOSS branch uses the micro contract's 2 dollars per point
profit_loss_micro_multiplier(outcome, fill, stop, quantity, rr) ==
    IF outcome = "WIN"
    THEN win_profit(fill, stop, quantity, rr)
    ELSE -(Abs(fill - stop) * quantity * 2)


profit(outcome, fill, stop, quantity, rr) ==
    IF outcome = "WIN"
    THEN win_profit(fill, stop, quantity, rr)
    ELSE -risk_amt(fill, stop, quantity)

trade_record(symbol, action, price, stop, quantity, reasoning, slippage, outcome, rr) ==
    LET fill == fill_price(action, price, slippage)
        net  == profit(outcome, fill, stop, quantity, rr) - commission(quantity)
    IN  [symbol    |-> symbol,
         action    |-> action,
         price     |-> Round2(fill),
         pnl       |-> Round2(net),
         result    |-> outcome,
         reasoning |-> reasoning]

\* execute_order with the commission left out of the pnl update
execute_order_pnl_gross(symbol, action, quantity, price, stop, reasoning, slippage, outcome, rr) ==
    LET fill  == fill_price(action, price, slippage)
        gross == profit(outcome, fill, stop, quantity, rr)
    IN  /\ balance' = balance + gross - commission(quantity)
        /\ pnl' = pnl + gross
        /\ history' = Append(history,
              trade_record(symbol, action, price, stop, quantity, reasoning,
                           slippage, outcome, rr))

execute_order(symbol, action, quantity, price, stop, reasoning, slippage, outcome, rr) ==
    LET fill == fill_price(action, price, slippage)
        net  == profit(outcome, fill, stop, quantity, rr) - commission(quantity)
    IN  /\ balance' = balance + net
        /\ pnl' = pnl + net
        /\ history' = Append(history,
              trade_record(symbol, action, price, stop, quantity, reasoning,
                           slippage, outcome, rr))

reset ==
    /\ balance' = Dollars(initial_balance)
    /\ pnl' = 0
    /\ history' = <<>>

----------------------------------------------------------------------------
(* RiskManager *)

\* can_trade that lets the trade count reach max_trades_daily + 1
can_trade_off_by_one ==
    IF stats_pnl <= -Dollars(max_daily_loss)
    THEN [allowed |-> FALSE, reason |-> "Daily Loss Limit Hit"]
    ELSE IF trades_today > max_trades_daily
    THEN [allowed |-> FALSE, reason |-> "Max Trades Reached"]
    ELSE [allowed |-> TRUE, reason |-> "OK"]

\* can_trade with the two checks in the other order
can_trade_count_first ==
    IF trades_today >= max_trades_daily
    THEN [allowed |-> FALSE, reason |-> "Max Trades Reached"]
    ELSE IF stats_pnl <= -Dollars(max_daily_loss)
    THEN [allowed |-> FALSE, reason |-> "Daily Loss Limit Hit"]
    ELSE [allowed |-> TRUE, reason |-> "OK"]

can_trade ==
    IF stats_pnl <= -Dollars(max_daily_loss)
    THEN [allowed |-> FALSE, reason |-> "Daily Loss Limit Hit"]
    ELSE IF trades_today >= max_trades_daily
    THEN [allowed |-> FALSE, reason |-> "Max Trades Reached"]
    ELSE [allowed |-> TRUE, reason |-> "OK"]

\* calculate_position_size without the max(1, ...) floor
calculate_position_size_no_floor(bal, entry_price, stop_price, instrument) ==
    LET risk_amount    == bal * risk_per_trade_pct
        tick_val_mini  == IF instrument = "NQ" THEN 20 ELSE 50
        tick_val_micro == IF instrument = "NQ" THEN 2 ELSE 5
        diff           == Abs(entry_price - stop_price)
        point_diff     == IF diff = 0 THEN Points(10) ELSE diff
        risk_per_mini  == point_diff * tick_val_mini * 1000
        risk_per_micro == point_diff * tick_val_micro * 1000
    IN  IF risk_amount >= risk_per_mini
        THEN [type      |-> "MINI",
              symbol    |-> instrument,
              contracts |-> TruncDiv(risk_amount, risk_per_mini)]
        ELSE [type      |-> "MICRO",
              symbol    |-> "M" \o instrument,
              contracts |-> TruncDiv(risk_amount, risk_per_micro)]

\* calculate_position_size choosing the standard tier only above one
\* contract's risk
calculate_position_size_strict(bal, entry_price, stop_price, instrument) ==
    LET risk_amount    == bal * risk_per_trade_pct
        tick_val_mini  == IF instrument = "NQ" THEN 20 ELSE 50
        tick_val_micro == IF instrument = "NQ" THEN 2 ELSE 5
        diff           == Abs(entry_price - stop_price)
        point_diff     == IF diff = 0 THEN Points(10) ELSE diff
        risk_per_mini  == point_diff * tick_val_mini * 1000
        risk_per_micro == point_diff * tick_val_micro * 1000
    IN  IF risk_amount > risk_per_mini
        THEN [type      |-> "MINI",
              symbol    |-> instrument,
              contracts |-> Max(1, TruncDiv(risk_amount, risk_per_mini))]
        ELSE [type      |-> "MICRO",
              symbol    |-> "M" \o instrument,
              contracts |-> Max(1, TruncDiv(risk_amount, risk_per_micro))]

\* calculate_position_size with the per-point values of the two instrument
\* classes swapped
calculate_position_size_swapped_ticks(bal, entry_price, stop_price, instrument) ==
    LET risk_amount    == bal * risk_per_trade_pct
        tick_val_mini  == IF instrument = "NQ" THEN 50 ELSE 20
        tick_val_micro == IF instrument = "NQ" THEN 5 ELSE 2
        diff           == Abs(entry_price - stop_price)
        point_diff     == IF diff = 0 THEN Points(10) ELSE diff
        risk_per_mini  == point_diff * tick_val_mini * 1000
        risk_per_micro == point_diff * tick_val_micro * 1000
    IN  IF risk_amount >= risk_per_mini
        THEN [type      |-> "MINI",
              symbol    |-> instrument,
              contracts |-> Max(1, TruncDiv(risk_amount, risk_per_mini))]
        ELSE [type      |-> "MICRO",
              symbol    |-> "M" \o instrument,
              contracts |-> Max(1, TruncDiv(risk_amount, risk_per_micro))]

\* bal is state['balance'] (thousandths of a dollar).  risk_amount and the
\* per-contract risks are compared in millionths of a dollar.
calculate_position_size(bal, entry_price, stop_price, instrument) ==
    LET risk_amount    == bal * risk_per_trade_pct
        tick_val_mini  == IF instrument = "NQ" THEN 20 ELSE 50
        tick_val_micro == IF instrument = "NQ" THEN 2 ELSE 5
        diff           == Abs(entry_price - stop_price)
        point_diff     == IF diff = 0 THEN Points(10) ELSE diff
        risk_per_mini  == point_diff * tick_val_mini * 1000
        risk_per_micro == point_diff * tick_val_micro * 1000
    IN  IF risk_amount >= risk_per_mini
        THEN [type      |-> "MINI",
              symbol    |-> instrument,
              contracts |-> Max(1, TruncDiv(risk_amount, risk_per_mini))]
        ELSE [type      |-> "MICRO",
              symbol    |-> "M" \o instrument,
              contracts |-> Max(1, TruncDiv(risk_amount, risk_per_micro))]

\* execute_paper_trade that counts the trade twice
execute_paper_trade_double_count(symbol, action, price, stop, reasoning, slippage, outcome, rr) ==
    LET sizing == calculate_position_size(stats_balance, price, stop, "NQ")
    IN  /\ execute_order(sizing.symbol, action, sizing.contracts, price, stop,
                         reasoning, slippage, outcome, rr)
        /\ trades_today' = trades_today + 2

\* execute_paper_trade that forgets to count the trade
execute_paper_trade_no_count(symbol, action, price, stop, reasoning, slippage, outcome, rr) ==
    LET sizing == calculate_position_size(stats_balance, price, stop, "NQ")
    IN  /\ execute_order(sizing.symbol, action, sizing.contracts, price, stop,
                         reasoning, slippage, outcome, rr)
        /\ UNCHANGED trades_today
\* execute_paper_trade that asks can_trade() itself
execute_paper_trade_rechecks(symbol, action, price, stop, reasoning, slippage, outcome, rr) ==
    LET sizing == calculate_position_size(stats_balance, price, stop, "NQ")
    IN  /\ can_trade.allowed
        /\ execute_order(sizing.symbol, action, sizing.contracts, price, stop,
                         reasoning, slippage, outcome, rr)
        /\ trades_today' = trades_today + 1


execute_paper_trade(symbol, action, price, stop, reasoning, slippage, outcome, rr) ==
    LET sizing == calculate_position_size(stats_balance, price, stop, "NQ")
    IN  /\ execute_order(sizing.symbol, action, sizing.contracts, price, stop,
                         reasoning, slippage, outcome, rr)
        /\ trades_today' = trades_today + 1
\* get_status deriving the status label from the trade count alone
get_status_count_only ==
    LET stats == get_stats
    IN  [balance      |-> stats.balance,
         daily_pl     |-> stats.pnl,
         daily_limit  |-> max_daily_loss,
         trades_today |-> trades_today,
         max_trades   |-> max_trades_daily,
         status       |-> IF trades_today < max_trades_daily
                          THEN "TRADING ACTIVE" ELSE "TRADING HALTED",
         win_rate     |-> stats.win_rate,
         trades_count |-> stats.trades_count,
         history      |-> stats.history]


get_status ==
    LET stats == get_stats
    IN  [balance      |-> stats.balance,
         daily_pl     |-> stats.pnl,
         daily_limit  |-> max_daily_loss,
         trades_today |-> trades_today,
         max_trades   |-> max_trades_daily,
         status       |-> IF can_trade.allowed THEN "TRADING ACTIVE"
                          ELSE "TRADING HALTED",
         win_rate     |-> stats.win_rate,
         trades_count |-> stats.trades_count,
         history      |-> stats.history]

\* reset_account that resets the ledger only
reset_account_keeps_count ==
    /\ reset
    /\ UNCHANGED trades_today

reset_account ==
    /\ reset
    /\ trades_today' = 0

----------------------------------------------------------------------------
(* engine.py endpoints, one request at a time *)

\* The event loop with no request in flight
LoopIdle == [waiting |-> 0, checked |-> 0, resetting |-> 0]

\* POST /execute: the three ways the handler returns.
execute_rejected ==
    /\ ~can_trade.allowed
    /\ resp' = [op |-> "execute", status |-> "REJECTED",
                reason |-> can_trade.reason]
    /\ UNCHANGED ledger
\* execute_trade looking at the data before asking can_trade()
execute_offline_before_gate(df) ==
    /\ df = <<>>
    /\ resp' = [op |-> "execute", status |-> "ERROR", reason |-> "Data Offline"]
    /\ UNCHANGED ledger


execute_offline(df) ==
    /\ can_trade.allowed
    /\ df = <<>>
    /\ resp' = [op |-> "execute", status |-> "ERROR", reason |-> "Data Offline"]
    /\ UNCHANGED ledger

\* execute_trade without the can_trade() check
execute_filled_ungated(req_action, req_reasoning, df, slippage, outcome, rr) ==
    /\ df # <<>>
    /\ LET price  == df[Len(df)]
           stop   == IF req_action = "BUY"
                     THEN price - Points(stop_offset)
                     ELSE price + Points(stop_offset)
           sizing == calculate_position_size(stats_balance, price, stop, "NQ")
       IN  /\ execute_paper_trade(SYMBOL, req_action, price, stop,
                                  req_reasoning, slippage, outcome, rr)
           /\ resp' = [op      |-> "execute",
                       status  |-> "FILLED (PAPER)",
                       details |-> [action    |-> req_action,
                                    contracts |-> sizing.contracts,
                                    type      |-> sizing.type,
                                    price     |-> Round2(price)],
                       result  |-> outcome]

\* execute_trade whose gate looks at the trade count only
execute_filled_count_gate(req_action, req_reasoning, df, slippage, outcome, rr) ==
    /\ trades_today < max_trades_daily
    /\ df # <<>>
    /\ LET price  == df[Len(df)]
           stop   == IF req_action = "BUY"
                     THEN price - Points(stop_offset)
                     ELSE price + Points(stop_offset)
           sizing == calculate_position_size(stats_balance, price, stop, "NQ")
       IN  /\ execute_paper_trade(SYMBOL, req_action, price, stop,
                                  req_reasoning, slippage, outcome, rr)
           /\ resp' = [op      |-> "execute",
                       status  |-> "FILLED (PAPER)",
                       details |-> [action    |-> req_action,
                                    contracts |-> sizing.contracts,
                                    type      |-> sizing.type,
                                    price     |-> Round2(price)],
                       result  |-> outcome]

execute_filled(req_action, req_reasoning, df, slippage, outcome, rr) ==
    /\ can_trade.allowed
    /\ df # <<>>
    /\ LET price  == df[Len(df)]
           stop   == IF req_action = "BUY"
                     THEN price - Points(stop_offset)
                     ELSE price + Points(stop_offset)
           sizing == calculate_position_size(stats_balance, price, stop, "NQ")
       IN  /\ execute_paper_trade(SYMBOL, req_action, price, stop,
                                  req_reasoning, slippage, outcome, rr)
           /\ resp' = [op      |-> "execute",
                       status  |-> "FILLED (PAPER)",
                       details |-> [action    |-> req_action,
                                    contracts |-> sizing.contracts,
                                    type      |-> sizing.type,
                                    price     |-> Round2(price)],
                       result  |-> outcome]

execute_trade(req_action, req_reasoning, df) ==
    \/ execute_rejected
    \/ execute_offline(df)
    \/ \E s \in Slippages, o \in Outcomes, rr \in RewardMultiples :
           execute_filled(req_action, req_reasoning, df, s, o, rr)

\* GET /account-status
account_status ==
    /\ resp' = [op |-> "account-status", body |-> get_status]
    /\ UNCHANGED <<ledger, loop>>

\* POST /reset
engine_reset_account ==
    /\ reset_account
    /\ resp' = [op |-> "reset", status |-> "RESET"]
    /\ UNCHANGED loop

----------------------------------------------------------------------------
(* Specification of the engine with requests processed one at a time *)

Init ==
    /\ balance = Dollars(initial_balance)
    /\ pnl = 0
    /\ history = <<>>
    /\ trades_today = 0
    /\ resp = [op |-> "none"]
    /\ loop = LoopIdle

PostExecute ==
    /\ \E a \in Actions, df \in Feeds : execute_trade(a, "Manual", df)
    /\ UNCHANGED loop

Next ==
    \/ PostExecute
    \/ account_status
    \/ engine_reset_account

Spec == Init /\ [][Next]_vars

----------------------------------------------------------------------------
(* Specification of RiskManager driven directly, one call at a time.  The    *)
(* caller is free to skip can_trade(), and to pass any stop.                 *)

\* Longest history explored when RiskManager is driven directly
MaxTrades == 3

\* (action, stop - price in points) of the direct execute_paper_trade calls:
\* the engine's order, an order with stop = price, and one whose stop distance
\* makes the risk budget smaller than one standard contract's risk.
RMOrders == {<<"BUY", -20>>, <<"BUY", 0>>, <<"SELL", 30>>}

RMPrices == {Points(20000)}

RMRewardMultiples == {30000}

rm_can_trade ==
    /\ resp' = [op |-> "can_trade", result |-> can_trade]
    /\ UNCHANGED <<ledger, loop>>

rm_get_status ==
    /\ resp' = [op |-> "get_status", result |-> get_status]
    /\ UNCHANGED <<ledger, loop>>

rm_execute_paper_trade(action, price, stop, slippage, outcome, rr) ==
    /\ Len(history) < MaxTrades
    /\ execute_paper_trade(SYMBOL, action, price, stop, "Manual", slippage,
                           outcome, rr)
    /\ resp' = [op     |-> "execute_paper_trade",
                trade  |-> trade_record(
                              calculate_position_size(stats_balance, price, stop,
                                                      "NQ").symbol,
                              action, price, stop,
                              calculate_position_size(stats_balance, price, stop,
                                                      "NQ").contracts,
                              "Manual", slippage, outcome, rr),
                sizing |-> calculate_position_size(stats_balance, price, stop,
                                                   "NQ")]
    /\ UNCHANGED loop

rm_reset_account ==
    /\ reset_account
    /\ resp' = [op |-> "reset_account"]
    /\ UNCHANGED loop

NextRM ==
    \/ rm_can_trade
    \/ rm_get_status
    \/ \E ord \in RMOrders, price \in RMPrices, s \in Slippages,
          o \in Outcomes, rr \in RMRewardMultiples :
           rm_execute_paper_trade(ord[1], price, price + Points(ord[2]), s, o, rr)
    \/ rm_reset_account

SpecRM == Init /\ [][NextRM]_vars

----------------------------------------------------------------------------
(* Specification of a PaperExchange driven directly *)

\* Longest history explored when PaperExchange is driven directly
MaxHistory == 2

\* (symbol, quantity, stop - price in points) of the direct execute_order calls
PXOrders == {<<"NQ", 1, -20>>, <<"MNQ", 3, 10>>}

PXActions == {"BUY", "SELL"}

px_execute_order(symbol, action, quantity, price, stop, slippage, outcome, rr) ==
    /\ Len(history) < MaxHistory
    /\ execute_order(symbol, action, quantity, price, stop, "Manual", slippage,
                     outcome, rr)
    /\ resp' = [op     |-> "execute_order",
                result |-> trade_record(symbol, action, price, stop, quantity,
                                        "Manual", slippage, outcome, rr)]
    /\ UNCHANGED <<trades_today, loop>>

px_reset ==
    /\ reset
    /\ resp' = [op |-> "reset", result |-> TRUE]
    /\ UNCHANGED <<trades_today, loop>>

px_get_stats ==
    /\ resp' = [op |-> "get_stats", result |-> get_stats]
    /\ UNCHANGED <<ledger, loop>>

NextPX ==
    \/ \E ord \in PXOrders, a \in PXActions, price \in RMPrices,
          s \in Slippages, o \in Outcomes, rr \in RewardMultiples :
           px_execute_order(ord[1], a, ord[2], price, price + Points(ord[3]),
                            s, o, rr)
    \/ px_reset
    \/ px_get_stats

SpecPX == Init /\ [][NextPX]_vars

----------------------------------------------------------------------------
(* Specification of calculate_position_size as a function of the balance and *)
(* its arguments: the balance is drawn by the initial state.                 *)

\* Largest stop distance, in points, of the sizing calls
MaxStopDistance == 30

\* Account balances of the sizing calls: whole dollars, and one balance a
\* fraction of a cent under 80000.
SizeBalances ==
    {Dollars(b) : b \in {-5000, 0, 100, 3999, 4000, 10000, 39999, 40000, 79999,
                         80000, 100000, 150000}}
        \cup {Dollars(80000) - 4}

SizeEntries == {Points(20000)}

SizeStops(entry) ==
    {entry - Points(d) : d \in 0..MaxStopDistance}
        \cup {entry + Points(d) + 250 : d \in 0..MaxStopDistance}

Instruments == {"NQ", "ES"}

InitSize ==
    /\ balance \in SizeBalances
    /\ pnl = balance - Dollars(initial_balance)
    /\ history = <<>>
    /\ trades_today = 0
    /\ resp = [op |-> "none"]
    /\ loop = LoopIdle

size_call(entry, stop, instrument) ==
    /\ resp' = [op         |-> "calculate_position_size",
                entry      |-> entry,
                stop       |-> stop,
                instrument |-> instrument,
                sizing     |-> calculate_position_size(stats_balance, entry, stop,
                                                       instrument)]
    /\ UNCHANGED <<ledger, loop>>

NextSize ==
    \E entry \in SizeEntries, instrument \in Instruments :
        \E stop \in SizeStops(entry) : size_call(entry, stop, instrument)

SpecSize == InitSize /\ [][NextSize]_vars

----------------------------------------------------------------------------
(* Specification of the engine with several requests in flight.  The        *)
(* handlers are coroutines run by one event loop: a handler that has        *)
(* started keeps the loop until it returns, since none of them awaits.      *)
(* The steps are the statements between which another handler would have   *)
(* to run to interleave: can_trade() and execute_paper_trade() in           *)
(* execute_trade, exchange.reset() and trades_today = 0 in reset_account.   *)

\* Most requests in flight at once: received, or being handled
MaxInFlight == 2

\* Draws of execute_order when several requests are in flight
LoopSlippages == {0, 500}

LoopRewardMultiples == {30000}

in_flight == loop.waiting + loop.checked + loop.resetting

\* Handlers started whenever a request waits, as on a pool of threads
loop_free_threads == TRUE

\* The event loop is free to start a handler: no handler has started and not
\* yet returned.
loop_free == loop.checked = 0 /\ loop.resetting = 0

\* A request arrives while others are in flight.
loop_receive ==
    /\ in_flight < MaxInFlight
    /\ loop' = [loop EXCEPT !.waiting = @ + 1]
    /\ UNCHANGED <<ledger, resp>>

\* execute_trade: can_trade() rejects, the handler returns REJECTED.
loop_execute_rejected ==
    /\ loop.waiting > 0
    /\ loop_free
    /\ execute_rejected
    /\ loop' = [loop EXCEPT !.waiting = @ - 1]

\* execute_trade: can_trade() allows, the handler goes on to fetch the data.
loop_execute_checked ==
    /\ loop.waiting > 0
    /\ loop_free
    /\ can_trade.allowed
    /\ loop' = [loop EXCEPT !.waiting = @ - 1, !.checked = @ + 1]
    /\ UNCHANGED <<ledger, resp>>

\* execute_trade after the check: no data, the handler returns ERROR.
loop_execute_offline(df) ==
    /\ loop.checked > 0
    /\ df = <<>>
    /\ resp' = [op |-> "execute", status |-> "ERROR", reason |-> "Data Offline"]
    /\ loop' = [loop EXCEPT !.checked = @ - 1]
    /\ UNCHANGED ledger

\* execute_trade after the check: the trade is executed and reported.
loop_execute_filled(req_action, req_reasoning, df, slippage, outcome, rr) ==
    /\ loop.checked > 0
    /\ df # <<>>
    /\ LET price  == df[Len(df)]
           stop   == IF req_action = "BUY"
                     THEN price - Points(stop_offset)
                     ELSE price + Points(stop_offset)
           sizing == calculate_position_size(stats_balance, price, stop, "NQ")
       IN  /\ execute_paper_trade(SYMBOL, req_action, price, stop,
                                  req_reasoning, slippage, outcome, rr)
           /\ resp' = [op      |-> "execute",
                       status  |-> "FILLED (PAPER)",
                       details |-> [action    |-> req_action,
                                    contracts |-> sizing.contracts,
                                    type      |-> sizing.type,
                                    price     |-> Round2(price)],
                       result  |-> outcome]
    /\ loop' = [loop EXCEPT !.checked = @ - 1]

\* account_status: one statement.
loop_account_status ==
    /\ loop.waiting > 0
    /\ loop_free
    /\ resp' = [op |-> "account-status", body |-> get_status]
    /\ loop' = [loop EXCEPT !.waiting = @ - 1]
    /\ UNCHANGED ledger

\* reset_account, first statement: self.exchange.reset()
loop_reset_ledger ==
    /\ loop.waiting > 0
    /\ loop_free
    /\ reset
    /\ loop' = [loop EXCEPT !.waiting = @ - 1, !.resetting = @ + 1]
    /\ UNCHANGED <<trades_today, resp>>

\* reset_account, second statement: self.trades_today = 0; the handler returns.
loop_reset_count ==
    /\ loop.resetting > 0
    /\ trades_today' = 0
    /\ resp' = [op |-> "reset", status |-> "RESET"]
    /\ loop' = [loop EXCEPT !.resetting = @ - 1]
    /\ UNCHANGED <<balance, pnl, history>>

NextLoop ==
    \/ loop_receive
    \/ loop_execute_rejected
    \/ loop_execute_checked
    \/ \E df \in Feeds : loop_execute_offline(df)
    \/ \E a \in Actions, df \in Feeds, s \in LoopSlippages, o \in Outcomes,
          rr \in LoopRewardMultiples :
           loop_execute_filled(a, "Manual", df, s, o, rr)
    \/ loop_account_status
    \/ loop_reset_ledger
    \/ loop_reset_count

SpecLoop == Init /\ [][NextLoop]_vars

----------------------------------------------------------------------------
(* Specification of RiskManager driven by a caller that sends the engine's  *)
(* order again and again without asking can_trade(), and reads the account  *)
(* in between.                                                              *)

\* Longest history explored when the caller skips can_trade()
MaxDirectTrades == 6

\* Draws of execute_order for these calls: 1.5926 is a reward multiple that
\* leaves balance and pnl off a whole cent.
DirectSlippages == {0, 250}

DirectRewardMultiples == {15926}

\* stop - price, in points, of the sizing calls
DirectStopOffsets == {-20, 0}

direct_execute_paper_trade(action, price, stop, slippage, outcome, rr) ==
    /\ Len(history) < MaxDirectTrades
    /\ execute_paper_trade(SYMBOL, action, price, stop, "Manual", slippage,
                           outcome, rr)
    /\ resp' = [op     |-> "execute_paper_trade",
                trade  |-> trade_record(
                              calculate_position_size(stats_balance, price, stop,
                                                      "NQ").symbol,
                              action, price, stop,
                              calculate_position_size(stats_balance, price, stop,
                                                      "NQ").contracts,
                              "Manual", slippage, outcome, rr),
                sizing |-> calculate_position_size(stats_balance, price, stop,
                                                   "NQ")]
    /\ UNCHANGED loop

\* The engine's BUY order, sent without asking can_trade()
direct_order ==
    \E price \in RMPrices, s \in DirectSlippages, o \in Outcomes,
       rr \in DirectRewardMultiples :
        direct_execute_paper_trade("BUY", price, price - Points(stop_offset),
                                   s, o, rr)

NextDirect ==
    \/ rm_can_trade
    \/ rm_get_status
    \/ \E price \in RMPrices, d \in DirectStopOffsets :
           size_call(price, price + Points(d), "NQ")
    \/ direct_order
    \/ rm_reset_account

SpecDirect == Init /\ [][NextDirect]_vars

----------------------------------------------------------------------------
(* Specification of a PaperExchange whose history grows past the ten       *)
(* records get_stats exposes: one and the same order, won or lost.         *)

\* Longest history explored when the statistics are read
MaxStatsHistory == 11

stats_execute_order(outcome) ==
    /\ Len(history) < MaxStatsHistory
    /\ \E price \in RMPrices :
           /\ execute_order("NQ", "BUY", 1, price, price - Points(stop_offset),
                            "Manual", 0, outcome, 30000)
           /\ resp' = [op     |-> "execute_order",
                       result |-> trade_record("NQ", "BUY", price,
                                               price - Points(stop_offset), 1,
                                               "Manual", 0, outcome, 30000)]
    /\ UNCHANGED <<trades_today, loop>>

NextStats ==
    \/ \E o \in Outcomes : stats_execute_order(o)
    \/ px_get_stats
    \/ px_reset

SpecStats == Init /\ [][NextStats]_vars

----------------------------------------------------------------------------
(* Claims *)

\* An execute_order step: the same amount, whose rounding is the recorded pnl,
\* is added to balance and pnl, and the returned record is appended.
C1_ExecuteOrderStep ==
    /\ resp'.op = "execute_order"
    /\ balance' - balance = pnl' - pnl
    /\ Round2(pnl' - pnl) = resp'.result.pnl
    /\ history' = Append(history, resp'.result)

\* A reset step restores the initial ledger.
C1_ResetStep ==
    /\ resp'.op = "reset"
    /\ balance' = Dollars(initial_balance)
    /\ pnl' = 0
    /\ history' = <<>>

C2_TradeOnlyIfAllowed ==
    (Len(history') > Len(history)) =>
        /\ can_trade.allowed
        /\ pnl > -Dollars(max_daily_loss)
        /\ trades_today < max_trades_daily
        /\ resp'.op = "execute"
        /\ resp'.status = "FILLED (PAPER)"

\* A POST /execute taken where can_trade() rejects returns REJECTED with the
\* reason and changes nothing.
C2_RejectedUnchanged ==
    (resp'.op = "execute" /\ ~can_trade.allowed) =>
        /\ resp'.status = "REJECTED"
        /\ resp'.reason = can_trade.reason
        /\ UNCHANGED ledger

\* C2: through POST /execute a trade is executed only in a step whose
\* can_trade() allowed it (so never with pnl <= -1000); a request that
\* can_trade() rejects returns REJECTED with can_trade's reason and leaves
\* balance, pnl, history and trades_today unchanged; trades_today never
\* exceeds 5.
C2_RiskGateBeforeTrade ==
    /\ [](trades_today <= max_trades_daily)
    /\ [][C2_TradeOnlyIfAllowed /\ C2_RejectedUnchanged]_vars

\* C2 witness: a request was rejected at the trade-count limit.
C2_Witness ==
    /\ resp.op = "execute"
    /\ resp.status = "REJECTED"
    /\ resp.reason = "Max Trades Reached"
    /\ trades_today = max_trades_daily
    /\ Len(history) = max_trades_daily

\* C3: whenever cumulative pnl <= -1000, can_trade() is
\* (False, "Daily Loss Limit Hit"), whatever trades_today is, and that is the
\* reason a rejected POST /execute reports.
C3_LossLimitFirst ==
    (pnl <= -Dollars(max_daily_loss)) =>
        /\ can_trade = [allowed |-> FALSE, reason |-> "Daily Loss Limit Hit"]
        /\ ((resp.op = "execute" /\ resp.status = "REJECTED") =>
               resp.reason = "Daily Loss Limit Hit")

\* C3 witness: the loss limit is hit with five trades taken, and a request
\* was rejected for it.
C3_Witness ==
    /\ pnl <= -Dollars(max_daily_loss)
    /\ trades_today >= max_trades_daily
    /\ resp.op = "execute"
    /\ resp.status = "REJECTED"
    /\ resp.reason = "Daily Loss Limit Hit"

\* The three results can_trade() can give
C4_Allowed == [allowed |-> TRUE, reason |-> "OK"]

C4_LossLimit == [allowed |-> FALSE, reason |-> "Daily Loss Limit Hit"]

C4_MaxTrades == [allowed |-> FALSE, reason |-> "Max Trades Reached"]

\* C4 (as stated): can_trade() is (False, "Max Trades Reached") whenever
\* trades_today >= 5 and pnl > -1000, is (True, "OK") exactly when pnl > -1000
\* and trades_today < 5, and is always one of the three pairs.
C4_GateOnExactPnl ==
    /\ (trades_today >= max_trades_daily /\ pnl > -Dollars(max_daily_loss))
           => can_trade = C4_MaxTrades
    /\ (can_trade = C4_Allowed)
           <=> (pnl > -Dollars(max_daily_loss) /\ trades_today < max_trades_daily)
    /\ can_trade \in {C4_Allowed, C4_LossLimit, C4_MaxTrades}

\* pnl rounded to cents is above -1000: round(pnl, 2) <= -1000 exactly when
\* pnl <= -999.995.
C4_AboveLimitInCents == pnl > -Dollars(max_daily_loss) + 5

\* C4 (amended): with pnl rounded to cents, as get_stats reports it,
\* can_trade() is (False, "Max Trades Reached") whenever trades_today >= 5 and
\* the rounded pnl > -1000, is (True, "OK") exactly when the rounded pnl > -1000
\* and trades_today < 5, and is always one of the three pairs.
C4_GateOnRoundedPnl ==
    /\ (trades_today >= max_trades_daily /\ C4_AboveLimitInCents)
           => can_trade = C4_MaxTrades
    /\ (can_trade = C4_Allowed)
           <=> (C4_AboveLimitInCents /\ trades_today < max_trades_daily)
    /\ can_trade \in {C4_Allowed, C4_LossLimit, C4_MaxTrades}

\* C4 witness: five trades taken and a pnl between -1000 and -999.995, where
\* the gate reports the loss limit.
C4_Witness ==
    /\ trades_today = max_trades_daily
    /\ pnl > -Dollars(max_daily_loss)
    /\ ~C4_AboveLimitInCents
    /\ can_trade = C4_LossLimit

\* C5 (as stated): after five gated executions since the last reset, the
\* sixth can_trade() is (False, "Max Trades Reached"), and so is what a sixth
\* POST /execute reports.
C5_SixthIsMaxTrades ==
    (Len(history) = max_trades_daily) =>
        /\ can_trade = C4_MaxTrades
        /\ ((resp.op = "execute" /\ resp.status # "FILLED (PAPER)") =>
               (resp.status = "REJECTED" /\ resp.reason = "Max Trades Reached"))

\* The reason can_trade() must give after five executions
C5_Reason ==
    IF C4_AboveLimitInCents THEN "Max Trades Reached" ELSE "Daily Loss Limit Hit"

\* C5 (amended): after five gated executions since the last reset, the sixth
\* can_trade() returns False, with reason "Max Trades Reached" when pnl
\* rounded to cents is above -1000 and "Daily Loss Limit Hit" when the five
\* trades brought it to -1000 or below; a sixth POST /execute is REJECTED with
\* that reason.
C5_SixthCallRejected ==
    (Len(history) = max_trades_daily) =>
        /\ can_trade = [allowed |-> FALSE, reason |-> C5_Reason]
        /\ ((resp.op = "execute" /\ resp.status # "FILLED (PAPER)") =>
               (resp.status = "REJECTED" /\ resp.reason = C5_Reason))

\* C5 witness: a win and four losses were executed, and the sixth request was
\* rejected for the loss limit.
C5_Witness ==
    /\ Len(history) = max_trades_daily
    /\ history[1].result = "WIN"
    /\ resp.op = "execute"
    /\ resp.status = "REJECTED"
    /\ resp.reason = "Daily Loss Limit Hit"

\* C6: in the state reset_account() leaves, balance = 100000, pnl = 0, the
\* history is empty, trades_today = 0 and can_trade() is (True, "OK").
C6_ResetRestoresAll ==
    (resp.op = "reset_account") =>
        /\ balance = Dollars(initial_balance)
        /\ pnl = 0
        /\ history = <<>>
        /\ trades_today = 0
        /\ can_trade = C4_Allowed

\* C6 witness: reset_account() has just returned.
C6_Witness ==
    /\ resp.op = "reset_account"
    /\ trades_today = 0
    /\ get_status.status = "TRADING ACTIVE"

\* A RiskManager step changes the two counts only by execute_paper_trade, which
\* raises both by one, or by reset_account, which zeroes both; can_trade and
\* get_status change nothing.
C7_CountStep ==
    /\ (trades_today' # trades_today \/ Len(history') # Len(history)) =>
           \/ /\ resp'.op = "execute_paper_trade"
              /\ trades_today' = trades_today + 1
              /\ Len(history') = Len(history) + 1
           \/ /\ resp'.op = "reset_account"
              /\ trades_today' = 0
              /\ history' = <<>>
    /\ (resp'.op \in {"can_trade", "get_status"}) => UNCHANGED ledger

\* C7: with RiskManager operations executed one at a time,
\* trades_today = len(history) in every state; each execute_paper_trade raises
\* both by exactly 1 and only reset_account lowers trades_today.
C7_CountMatchesHistory ==
    /\ [](trades_today = Len(history))
    /\ [][C7_CountStep]_vars

\* C7 witness: two trades executed since the last reset.
C7_Witness ==
    /\ resp.op = "execute_paper_trade"
    /\ trades_today = 2
    /\ Len(history) = 2

\* C8: every sizing calculate_position_size returns has contracts >= 1.
C8_ContractsAtLeastOne ==
    (resp.op = "calculate_position_size") => resp.sizing.contracts >= 1

\* C8 witness: a sizing call with entry_price = stop_price on an account with
\* no money returned one contract.
C8_Witness ==
    /\ resp.op = "calculate_position_size"
    /\ resp.entry = resp.stop
    /\ balance <= 0
    /\ resp.sizing.contracts = 1

\* The reference sizing rule of C9 for a balance bal: risk budget bal * 0.005
\* and per-contract risks in millionths of a dollar.
C9_Reference(bal, entry, stop, instrument) ==
    LET budget   == bal * 5
        d        == IF entry = stop THEN Points(10) ELSE Abs(entry - stop)
        standard == d * (IF instrument = "NQ" THEN 20 ELSE 50) * 1000
        micro    == d * (IF instrument = "NQ" THEN 2 ELSE 5) * 1000
    IN  IF budget >= standard
        THEN [type |-> "MINI", symbol |-> instrument,
              contracts |-> Max(1, budget \div standard)]
        ELSE [type |-> "MICRO", symbol |-> "M" \o instrument,
              contracts |-> Max(1, budget \div micro)]

\* C9 (as stated): every sizing returned is the reference rule applied to the
\* account balance.
C9_RuleOnExactBalance ==
    (resp.op = "calculate_position_size") =>
        resp.sizing = C9_Reference(balance, resp.entry, resp.stop, resp.instrument)

\* The two worked examples of C9: entry 20000, stop 19990, class NQ.
C9_Examples ==
    (/\ resp.op = "calculate_position_size"
     /\ resp.entry = Points(20000)
     /\ resp.stop = Points(19990)
     /\ resp.instrument = "NQ") =>
        /\ (balance = Dollars(100000)) =>
               resp.sizing = [type |-> "MINI", symbol |-> "NQ", contracts |-> 2]
        /\ (balance = Dollars(10000)) =>
               resp.sizing = [type |-> "MICRO", symbol |-> "MNQ", contracts |-> 2]

\* C9 (amended): every sizing returned is the reference rule applied to the
\* account balance rounded to cents, as get_stats reports it; the two worked
\* examples give standard tier with 2 contracts and MICRO tier with 2.
C9_RuleOnRoundedBalance ==
    /\ (resp.op = "calculate_position_size") =>
           resp.sizing = C9_Reference(Round2(balance), resp.entry, resp.stop,
                                      resp.instrument)
    /\ C9_Examples

\* C9 witness: the MICRO example has been computed.
C9_Witness ==
    /\ resp.op = "calculate_position_size"
    /\ balance = Dollars(10000)
    /\ resp.entry = Points(20000)
    /\ resp.stop = Points(19990)
    /\ resp.instrument = "NQ"
    /\ resp.sizing = [type |-> "MICRO", symbol |-> "MNQ", contracts |-> 2]

\* C10: a step of the engine other than POST /reset, taken where can_trade()
\* returns False, leads to a state where can_trade() returns False.
C10_HaltedUntilReset ==
    [][(~can_trade.allowed /\ resp'.op # "reset") => ~can_trade'.allowed]_vars

\* C10 witness: the account is halted by the loss limit with trades to spare,
\* and a request made after the halt has been answered.
C10_Witness ==
    /\ ~can_trade.allowed
    /\ trades_today < max_trades_daily
    /\ resp.op = "account-status"
    /\ resp.body.status = "TRADING HALTED"

\* C11 (as stated): in the response of a filled POST /execute the price of
\* details is the fill price of the trade just recorded, its contracts and
\* tier are the sizing decision that trade used, and result is the recorded
\* outcome.
C11_DetailsMatchTrade ==
    [][(resp'.op = "execute" /\ resp'.status = "FILLED (PAPER)") =>
          \E df \in Feeds \ {<<>>} :
              LET price  == df[Len(df)]
                  stop   == IF resp'.details.action = "BUY"
                            THEN price - Points(stop_offset)
                            ELSE price + Points(stop_offset)
                  sizing == calculate_position_size(stats_balance, price, stop,
                                                    "NQ")
                  trade  == history'[Len(history')]
              IN  /\ resp'.details.price = trade.price
                  /\ resp'.details.contracts = sizing.contracts
                  /\ resp'.details.type = sizing.type
                  /\ trade.symbol = sizing.symbol
                  /\ resp'.result = trade.result]_vars

\* C12 (as stated): the check and the trade of two POST /execute requests
\* interleave: while a request that passed can_trade() at trades_today = 4
\* has not yet executed its trade, the check of a second request in flight
\* can run and pass too, after which both trades are recorded and
\* trades_today = 6.
C12_CheckThenActRace ==
    (/\ loop.checked >= 1
     /\ loop.waiting >= 1
     /\ trades_today = max_trades_daily - 1
     /\ can_trade.allowed) => ENABLED loop_execute_checked

\* C12 (amended): with several POST /execute requests in flight, at most one
\* handler is ever between its can_trade() check and its trade, the check it
\* passed still holds when it trades, every trade is recorded in a state
\* where can_trade() allows it, and trades_today never exceeds 5.
C12_ChecksNeverOverlap ==
    /\ [](loop.checked + loop.resetting <= 1)
    /\ [](loop.checked >= 1 => can_trade.allowed)
    /\ [](trades_today <= max_trades_daily)
    /\ [][(Len(history') > Len(history)) =>
             (can_trade.allowed /\ trades_today' <= max_trades_daily)]_vars

\* C12 witness: one request has passed the check at trades_today = 4 and has
\* not traded yet, while a second request is in flight.
C12_Witness ==
    /\ loop.checked = 1
    /\ loop.waiting = 1
    /\ trades_today = max_trades_daily - 1
    /\ can_trade.allowed

\* A POST /execute step taken while the feed has no current price
C13_NoDataRequest == \E a \in Actions : execute_trade(a, "Manual", <<>>)

C14_TradeStep ==
    (resp'.op = "execute_paper_trade") =>
        /\ trades_today' = trades_today + 1
        /\ history' = Append(history, resp'.trade)
        /\ resp'.sizing.contracts >= 1
        /\ balance' # balance
        /\ balance' - balance = pnl' - pnl

\* C14: execute_paper_trade does not ask can_trade(): in a halted state
\* (trades_today >= 5 or pnl <= -1000) the call still goes through, and every
\* call sizes, executes and records one trade, changes balance and pnl and
\* raises trades_today by 1.
C14_NoEligibilityRecheck ==
    /\ []((~can_trade.allowed /\ Len(history) < MaxDirectTrades)
             => ENABLED direct_order)
    /\ [][C14_TradeStep]_vars

\* C14 witness: a sixth trade has been executed, on an account already past
\* both limits.
C14_Witness ==
    /\ resp.op = "execute_paper_trade"
    /\ trades_today = max_trades_daily + 1
    /\ Len(history) = max_trades_daily + 1
    /\ pnl <= -Dollars(max_daily_loss) - Dollars(max_daily_loss)

\* The P&L rule of C15, in thousandths of a dollar: the fill price, and the
\* net amount of a trade of quantity contracts with reward multiple rr (in
\* ten-thousandths) at 20 dollars per point and 2 dollars per contract.
C15_Fill(action, price, s) == IF action = "BUY" THEN price + s ELSE price - s

C15_Net(outcome, fill, stop, quantity, rr) ==
    LET x == (IF fill >= stop THEN fill - stop ELSE stop - fill) * quantity
    IN  IF outcome = "LOSS"
        THEN -(x * 20) - 2000 * quantity
        ELSE (x * (rr \div 2)) \div 250 - 2000 * quantity

C15_RecordedExact(net, p) == p = net

\* p is net rounded to a whole number of cents.
C15_RecordedInCents(net, p) ==
    /\ p % 10 = 0
    /\ p - net <= 5
    /\ net - p <= 5

\* An execute_order step follows the rule for some draw of slippage, outcome
\* and reward multiple; the record's pnl is the net amount, exactly or rounded
\* to cents.
C15_Step(exact) ==
    (resp'.op = "execute_order") =>
        \E ord \in PXOrders, a \in PXActions, price \in RMPrices,
           s \in {0, 250, 500}, o \in {"WIN", "LOSS"}, rr \in RewardMultiples :
            LET fill == C15_Fill(a, price, s)
                net  == C15_Net(o, fill, price + Points(ord[3]), ord[2], rr)
            IN  /\ rr >= 15000
                /\ rr <= 30000
                /\ resp'.result.symbol = ord[1]
                /\ resp'.result.action = a
                /\ resp'.result.result = o
                /\ resp'.result.price = fill
                /\ IF exact
                   THEN C15_RecordedExact(net, resp'.result.pnl)
                   ELSE C15_RecordedInCents(net, resp'.result.pnl)
                /\ balance' - balance = net
                /\ pnl' - pnl = net

\* C15 (as stated): for every symbol, side, quantity, price and stop,
\* execute_order fills at price + s for BUY and price - s otherwise with s in
\* {0, 0.25, 0.5}; the net pnl it records is -(|fill - stop| * quantity * 20)
\* - 2 * quantity on LOSS and |fill - stop| * quantity * 20 * rr - 2 * quantity
\* on WIN with rr in [1.5, 3.0], and that amount is added to balance and pnl.
C15_PnlRuleExact == [][C15_Step(TRUE)]_vars

\* C15 (amended): the same rule gives the amount added to balance and to pnl,
\* with the same multiplier 20 for every symbol and in both branches; the pnl
\* field of the trade record is that amount rounded to 2 decimals.
C15_PnlRule == [][C15_Step(FALSE)]_vars

\* C15 witness: a winning SELL of 3 contracts of the micro symbol whose net
\* amount is not a whole number of cents.
C15_Witness ==
    /\ resp.op = "execute_order"
    /\ resp.result.symbol = "MNQ"
    /\ resp.result.action = "SELL"
    /\ resp.result.result = "WIN"
    /\ Len(history) = 1
    /\ pnl % 10 # 0
    /\ resp.result.pnl # pnl

\* A partially reset account: the ledger is reset and trades_today still has
\* its old value.
C16_Partial ==
    /\ balance = Dollars(initial_balance)
    /\ pnl = 0
    /\ history = <<>>
    /\ trades_today # 0

\* C16: no operation interleaved with reset_account observes a partially
\* reset account: from such a state the only steps are the second statement
\* of the same reset, or the arrival of a request that reads nothing yet,
\* and no status ever reports a reset ledger with a non-zero trades_today.
C16_ResetAtomic ==
    /\ [][C16_Partial =>
             \/ /\ resp'.op = "reset"
                /\ trades_today' = 0
                /\ UNCHANGED <<balance, pnl, history>>
             \/ UNCHANGED <<ledger, resp>>]_vars
    /\ []((resp.op = "account-status") =>
             ~(/\ resp.body.balance = Dollars(initial_balance)
               /\ resp.body.daily_pl = 0
               /\ resp.body.trades_count = 0
               /\ resp.body.trades_today # 0))

\* C16 witness: a reset is between its two statements on an account that has
\* reached the trade limit, while another request is in flight.
C16_Witness ==
    /\ C16_Partial
    /\ trades_today = max_trades_daily
    /\ loop.resetting = 1
    /\ loop.waiting = 1

\* can_trade(), calculate_position_size() and get_status() change nothing.
C17_ReadOnly ==
    (resp'.op \in {"can_trade", "calculate_position_size", "get_status"}) =>
        UNCHANGED ledger

\* C17 (as stated): can_trade(), calculate_position_size() and get_status()
\* leave balance, pnl, history and trades_today unchanged, and get_status()
\* reports "TRADING ACTIVE" iff can_trade() allows, else "TRADING HALTED",
\* with trades_today, balance and daily_pl equal to the counter and the
\* ledger values.
C17_StatusIsLedger ==
    /\ [][C17_ReadOnly]_vars
    /\ []((resp.op = "get_status") =>
             /\ resp.result.status = IF can_trade.allowed THEN "TRADING ACTIVE"
                                     ELSE "TRADING HALTED"
             /\ resp.result.trades_today = trades_today
             /\ resp.result.balance = balance
             /\ resp.result.daily_pl = pnl)

\* r is x rounded to a whole number of cents.
C17_InCents(x, r) ==
    /\ r % 10 = 0
    /\ r - x <= 5
    /\ x - r <= 5

\* C17 (amended): the three operations change nothing, and get_status()
\* reports "TRADING ACTIVE" iff can_trade() allows, else "TRADING HALTED",
\* with trades_today equal to the counter and balance and daily_pl equal to
\* the ledger's balance and pnl rounded to 2 decimals.
C17_StatusIsRoundedLedger ==
    /\ [][C17_ReadOnly]_vars
    /\ []((resp.op = "get_status") =>
             /\ resp.result.status = IF can_trade.allowed THEN "TRADING ACTIVE"
                                     ELSE "TRADING HALTED"
             /\ resp.result.trades_today = trades_today
             /\ C17_InCents(balance, resp.result.balance)
             /\ C17_InCents(pnl, resp.result.daily_pl))

\* C17 witness: get_status() has reported a halted account whose balance is
\* not a whole number of cents.
C17_Witness ==
    /\ resp.op = "get_status"
    /\ resp.result.status = "TRADING HALTED"
    /\ balance % 10 # 0
    /\ resp.result.balance # balance

\* The number of records of h with result WIN
C18_WinCount(h) == Len(SelectSeq(h, LAMBDA t : t.result = "WIN"))

\* r, in tenths of a percent, is 100 * w / n rounded to 1 decimal (to the even
\* tenth when 100 * w / n lies halfway).
C18_IsRate(r, w, n) ==
    LET d == r * n - 1000 * w
    IN  /\ 2 * d <= n
        /\ -2 * d <= n
        /\ (2 * d = n \/ -2 * d = n) => r % 2 = 0

\* C18: what get_stats() returns has win_rate = 100 * WIN count / record
\* count rounded to 1 decimal when there is at least one trade and 0 when the
\* history is empty, trades_count = the full history length, and as history
\* the last 10 records in execution order.
C18_StatsFromHistory ==
    (resp.op = "get_stats") =>
        LET r == resp.result
            n == Len(history)
            k == IF n < 10 THEN n ELSE 10
        IN  /\ (n = 0) => r.win_rate = 0
            /\ (n > 0) => C18_IsRate(r.win_rate, C18_WinCount(history), n)
            /\ r.trades_count = n
            /\ Len(r.history) = k
            /\ \A i \in 1..k : r.history[i] = history[n - k + i]

\* C18 witness: get_stats() was called with eleven trades in the history, the
\* oldest a loss that the exposed history leaves out, and a win rate that is
\* not a whole tenth before rounding.
C18_Witness ==
    /\ resp.op = "get_stats"
    /\ Len(history) = 11
    /\ history[1].result = "LOSS"
    /\ history[2].result = "WIN"
    /\ C18_WinCount(history) = 4
    /\ resp.result.win_rate = 364
    /\ resp.result.history[1] = history[2]

\* C19: with the engine's requests handled one at a time, pnl stays above
\* -1000 minus one maximal single-trade loss, pnl > -1412, and balance stays
\* above 98588, in every reachable state; a trade is only made from a pnl
\* above -1000 and loses at most 412 (one contract, 20.5 points at 20 dollars
\* per point, plus the commission of 2 dollars).
C19_LossOvershootBound ==
    /\ [](pnl > -Dollars(max_daily_loss) - Dollars(412))
    /\ [](balance > Dollars(initial_balance) - Dollars(max_daily_loss)
                        - Dollars(412))
    /\ [][(Len(history') > Len(history)) =>
             /\ pnl > -Dollars(max_daily_loss)
             /\ pnl' - pnl >= -Dollars(412)]_vars

\* C19 witness: the loss limit was overshot by a maximal loss: a third loss
\* of 412, taken at pnl = -824, left pnl at -1236.
C19_Witness ==
    /\ resp.op = "execute"
    /\ resp.status = "FILLED (PAPER)"
    /\ resp.result = "LOSS"
    /\ history[Len(history)].pnl = -Dollars(412)
    /\ pnl = -3 * Dollars(412)
    /\ ~can_trade.allowed

\* C20: every trade executed through POST /execute, with requests handled one
\* at a time, is sized as 1 contract of the standard (MINI) tier with symbol
\* "NQ": the balance the sizing reads is between 80000 and 160000 at every
\* sizing call, so the MICRO branch is never taken.
C20_AlwaysOneMini ==
    /\ [][(resp'.op = "execute" /\ resp'.status = "FILLED (PAPER)") =>
             /\ resp'.details.contracts = 1
             /\ resp'.details.type = "MINI"
             /\ history'[Len(history')].symbol = "NQ"
             /\ stats_balance >= Dollars(80000)
             /\ stats_balance < Dollars(160000)]_vars
    /\ [](\A i \in 1..Len(history) : history[i].symbol = "NQ")

\* C20 witness: the fifth trade of the day, after a win and three losses, was
\* sized on a balance under 100000 and filled: 1 contract of the standard
\* tier.
C20_Witness ==
    /\ resp.op = "execute"
    /\ resp.status = "FILLED (PAPER)"
    /\ resp.details.contracts = 1
    /\ resp.details.type = "MINI"
    /\ trades_today = max_trades_daily
    /\ history[1].result = "WIN"
    /\ pnl < -Dollars(990)

=============================================================================
